---- MODULE Spec2Model ----
(***************************************************************************)
(* Snarveg: the gesture-driven route builder.                              *)
(*                                                                         *)
(* The model covers the App component (destinations, connections, current  *)
(* route, delayed node deletion), the NavigationWheel gesture handlers     *)
(* with their timers, the route helpers (buildRouteFromConnections,        *)
(* connectionExists, hasOutgoingConnection, rebuildConnectionsFromOrder)   *)
(* and the reorder buttons of RouteVisualization.                          *)
(*                                                                         *)
(* React specifics that the model keeps:                                   *)
(*  - event handlers run on the state of the latest render;                *)
(*  - a timer callback runs on the values captured when it was scheduled   *)
(*    (drawStart, hoveredNode), so a pending timer is a record holding its *)
(*    captured values;                                                     *)
(*  - setConnections(prev => ...) runs on the current connections;         *)
(*  - the effect cleanup keyed on [lockTimer, hoverTimer] clears the       *)
(*    previous handles of both timers whenever either state changes.       *)
(* Screen geometry is abstracted: a pointer move carries the node whose    *)
(* 50px hit radius it is in (or none) and whether it is more than 10px     *)
(* away from the press position.  Labels, colours, positions, createdAt    *)
(* and the route id are not modelled.                                      *)
(*                                                                         *)
(* Left out: edit mode (drag-to-swap), filling a node (handleEditDestina-  *)
(* tion), the dialogs that onNodeClick opens, lockProgress.  Clear and     *)
(* delete are taken for the nodes whose dialog offers them, at any moment  *)
(* (the context menu opens the dialog without touching the gesture state). *)
(* The back button of TopBar is folded into handleBackToWheel: currentRoute*)
(* is not read in wheel mode.                                              *)
(***************************************************************************)
EXTENDS Integers, Sequences, FiniteSets, TLC

\* Number of filled non-center nodes of the initial wheel.
NumInitial == 2

\* Number of transport modes getRandomTransportMode draws from.
NumModes == 1

\* Number of node removals (clear or delete) in one behaviour.
MaxRemovals == 1

\* Longest edge list handed to buildRouteFromConnections on its own.
MaxEdges == 3

\* Number of transport tags on those edge lists.
NumLinModes == 2

\* Number of outcomes of each Math.random() draw that are told apart.
NumRandom == 2

\* Calls of buildRouteFromConnections on one edge list that are recorded.
MaxCalls == 2

\* Most filled nodes on the wheel while nodes are dragged in edit mode.
MaxEditFilled == 3

\* Most car-animation timeouts pending at a time.
MaxCarTimeouts == 1

\* Most progress intervals of lock confirmations running at a time.
MaxLockIntervals == 1

None == "none"
Home == "home"

InitialNames == <<"leiligheta", "trening", "butikken", "biblioteket", "studentsenteret">>
FilledIds == {InitialNames[i] : i \in 1..NumInitial}
Placeholder == "leggtil"
EmptyNames == <<"empty-1", "empty-2">>
\* The ids createEmptyNode hands out, in order: the placeholders appended while
\* the wheel is filled up to MAX_DESTINATIONS need more of them than Spec uses.
EmptyPool ==
  EmptyNames \o <<"empty-3", "empty-4", "empty-5", "empty-6", "empty-7", "empty-8",
                  "empty-9", "empty-10", "empty-11", "empty-12", "empty-13", "empty-14",
                  "empty-15", "empty-16", "empty-17", "empty-18", "empty-19", "empty-20",
                  "empty-21", "empty-22">>
NodeIds == {Home} \cup FilledIds \cup {Placeholder} \cup {EmptyNames[i] : i \in 1..Len(EmptyNames)}

TRANSPORT_MODE_EMOJIS == <<"walk", "bus", "tram", "bike", "ferry", "taxi">>
Modes == {TRANSPORT_MODE_EMOJIS[i] : i \in 1..NumModes}

MAX_DESTINATIONS == 20

INITIAL_DESTINATIONS ==
  <<[id |-> Home, isCenter |-> TRUE, isEmpty |-> FALSE]>>
  \o [i \in 1..NumInitial |-> [id |-> InitialNames[i], isCenter |-> FALSE, isEmpty |-> FALSE]]
  \o <<[id |-> Placeholder, isCenter |-> FALSE, isEmpty |-> TRUE]>>

VARIABLES
  destinations,      \* App: ordered node list
  connections,       \* App: ordered edge list
  viewMode,          \* App: "wheel" or "route"
  currentRoute,      \* App: NullRoute (null) or the built route
  deleteTimers,      \* pending delayed removals (node ids)
  removals,          \* number of nodes cleared or deleted so far
  isDrawing,         \* NavigationWheel state
  drawStart,         \* id of the draw source, or None
  hoveredNode,       \* id of the hovered candidate, or None
  chainedDrawing,
  hoverTimer,        \* hover (auto-lock) timer: handle state and captured values
  lockTimer,         \* lock-confirmation timer: handle state and captured values
  longPressTimer,    \* TRUE while the callback of the current long-press handle is pending
  pendingTimeouts,   \* number of hover and lock timeouts that are set and have neither
                     \* fired nor been cleared
  toast,             \* advisory raised by the last handler, or None
  homeSeeded,        \* history: onConnectionCreate has inserted an edge with from = home
  linearized,        \* results of the calls of buildRouteFromConnections (deterministic
                     \* helpers) on connections, in call order
  linearizedVariant, \* the same for the helpers with random totals
  isEditMode,        \* App: edit mode of the wheel
  draggingNodeId,    \* NavigationWheel edit mode: id of the dragged node, or None
  pointerDownNodeId, \* NavigationWheel edit mode: id of the node pressed for the tap test, or None
  hoveredSwapNodeId, \* NavigationWheel edit mode: id of the swap candidate, or None
  editingDestination, \* App: id of the node the dialog is open for, or None
  lockingConnection, \* NavigationWheel: TRUE while lockingConnection is not null
  carAnimation,      \* NavigationWheel: TRUE while carAnimation is not null
  carTimeouts,       \* number of pending timeouts that reset carAnimation
  lockProgress,      \* NavigationWheel: lockProgress, in percent
  lockIntervals      \* number of running progress intervals of lock confirmations

appVars == <<destinations, connections, viewMode, currentRoute, deleteTimers, removals>>
wheelVars == <<isDrawing, drawStart, hoveredNode, chainedDrawing, hoverTimer, lockTimer,
               longPressTimer, pendingTimeouts>>
linVars == <<linearized, linearizedVariant>>
editVars == <<isEditMode, draggingNodeId, pointerDownNodeId, hoveredSwapNodeId>>
\* Spec follows the drawing gestures of the normal mode and lets the dialog act
\* on any node it is offered for: these variables keep their initial values there.
\* What the wheel draws over the nodes and edges; no handler of the normal mode
\* reads it.
overlayVars == <<lockingConnection, carAnimation, carTimeouts, lockProgress, lockIntervals>>
auxVars == <<linVars, editVars, editingDestination, overlayVars>>
vars == <<appVars, wheelVars, toast, homeSeeded, auxVars>>

\* A timer handle state: null, a handle whose callback is pending (with the
\* values the callback captured), or a handle that was cleared or has fired.
\* found (lock timers): the destinations captured by the callback hold its
\* target node, so destinations.find(...)! is defined when it runs.
\* absorbed and reseeded are history, read by no handler. absorbed: the
\* onConnectionCreate call of the release that started a lock timer did not
\* insert its edge. reseeded: it inserted an edge out of home after an earlier
\* call had inserted one.
NoTimer == [from |-> None, to |-> None, live |-> FALSE, handle |-> FALSE,
            found |-> FALSE, absorbed |-> FALSE, reseeded |-> FALSE]
StaleTimer == [NoTimer EXCEPT !.handle = TRUE]
Timer(f, t) == [NoTimer EXCEPT !.from = f, !.to = t, !.live = TRUE, !.handle = TRUE]
clearTimeout(t) == IF t.handle THEN StaleTimer ELSE NoTimer

\* The number of pending timeouts that clearTimeout of the handle state t cancels.
cancels(t) == IF t.live THEN 1 ELSE 0

----------------------------------------------------------------------------
\* Sequence helpers

\* Array.prototype.findIndex: first index satisfying the test, 0 when none.
FindIndex(s, Test(_)) ==
  IF \E i \in 1..Len(s) : Test(s[i])
  THEN CHOOSE i \in 1..Len(s) : Test(s[i]) /\ \A j \in 1..(i-1) : ~Test(s[j])
  ELSE 0

\* Array.prototype.map
Map(s, F(_)) == [i \in 1..Len(s) |-> F(s[i])]

findDest(dests, nodeId) == FindIndex(dests, LAMBDA d : d.id = nodeId)

hasDest(dests, nodeId) == findDest(dests, nodeId) # 0

----------------------------------------------------------------------------
\* utils/helpers

connectionExists(conns, from, to) ==
  \E i \in 1..Len(conns) :
    \/ conns[i].from = from /\ conns[i].to = to
    \/ conns[i].from = to /\ conns[i].to = from

\* hasOutgoingConnection testing the wrong endpoint.
hasOutgoingConnectionByTarget(conns, nodeId) ==
  \E i \in 1..Len(conns) : conns[i].to = nodeId

hasOutgoingConnection(conns, nodeId) ==
  \E i \in 1..Len(conns) : conns[i].from = nodeId

\* allNodes: the Set of endpoints, in insertion order (from before to).
RECURSIVE allNodesOf(_, _)
allNodesOf(conns, acc) ==
  IF conns = <<>> THEN acc
  ELSE LET c == Head(conns)
           a1 == IF \E i \in 1..Len(acc) : acc[i] = c.from THEN acc ELSE Append(acc, c.from)
           a2 == IF \E i \in 1..Len(a1) : a1[i] = c.to THEN a1 ELSE Append(a1, c.to)
       IN allNodesOf(Tail(conns), a2)

incomingCount(conns, node) == Cardinality({i \in 1..Len(conns) : conns[i].to = node})
outgoingCount(conns, node) == Cardinality({i \in 1..Len(conns) : conns[i].from = node})

\* The start node: the first endpoint without incoming and with outgoing
\* connections, else the from of the first connection.
startNode(conns) ==
  LET all == allNodesOf(conns, <<>>)
      k == FindIndex(all, LAMBDA n : incomingCount(conns, n) = 0 /\ outgoingCount(conns, n) > 0)
  IN IF k # 0 THEN all[k] ELSE conns[1].from

\* The while loop without the test of visitedNodes.
RECURSIVE walkRevisiting(_, _, _, _, _)
walkRevisiting(conns, current, route, visitedConnections, orderedConnections) ==
  LET ok(i) == i \notin visitedConnections /\ conns[i].from = current
      found == \E i \in 1..Len(conns) : ok(i)
      nextIndex == CHOOSE i \in 1..Len(conns) : ok(i) /\ \A j \in 1..(i-1) : ~ok(j)
  IN IF ~found THEN [route |-> route, orderedConnections |-> orderedConnections]
     ELSE walkRevisiting(conns, conns[nextIndex].to, Append(route, conns[nextIndex].to),
                         visitedConnections \cup {nextIndex},
                         Append(orderedConnections, conns[nextIndex]))

\* The while loop: state is (current, route, visitedConnections, orderedConnections);
\* visitedNodes is the set of nodes of route.
RECURSIVE walk(_, _, _, _, _)
walk(conns, current, route, visitedConnections, orderedConnections) ==
  LET visitedNodes == {route[i] : i \in 1..Len(route)}
      ok(i) == i \notin visitedConnections /\ conns[i].from = current
               /\ conns[i].to \notin visitedNodes
      found == \E i \in 1..Len(conns) : ok(i)
      nextIndex == CHOOSE i \in 1..Len(conns) : ok(i) /\ \A j \in 1..(i-1) : ~ok(j)
  IN IF ~found THEN [route |-> route, orderedConnections |-> orderedConnections]
     ELSE walk(conns, conns[nextIndex].to, Append(route, conns[nextIndex].to),
               visitedConnections \cup {nextIndex},
               Append(orderedConnections, conns[nextIndex]))

NullRoute == [isNull |-> TRUE, destinations |-> <<>>, transportModes |-> <<>>,
              totalTime |-> 0, totalDistance |-> 0]

baseTime == 12
timePerLeg == 8
\* distances are kept in tenths of a km: baseDistance 3, distancePerLeg 2.5
baseDistance == 30
distancePerLeg == 25

buildRouteFromConnections(conns) ==
  IF Len(conns) = 0 THEN NullRoute
  ELSE LET start == startNode(conns)
           w == walk(conns, start, <<start>>, {}, <<>>)
       IN IF Len(w.route) < 2 THEN NullRoute
          ELSE [isNull |-> FALSE,
                destinations |-> w.route,
                transportModes |-> Map(w.orderedConnections, LAMBDA c : c.transportMode),
                totalTime |-> baseTime + Len(w.orderedConnections) * timePerLeg,
                totalDistance |-> baseDistance + Len(w.orderedConnections) * distancePerLeg]

\* The second copy of utils/helpers: the route starts at 'home', the walk
\* follows an edge in either direction (Array.prototype.find: the first in
\* insertion order), and route is the list of nodes visited.
RECURSIVE walkFromHome(_, _, _)
walkFromHome(conns, current, route) ==
  LET visited == {route[i] : i \in 1..Len(route)}
      k == FindIndex(conns, LAMBDA c : \/ c.from = current /\ c.to \notin visited
                                       \/ c.to = current /\ c.from \notin visited)
      next == IF conns[k].from = current THEN conns[k].to ELSE conns[k].from
  IN IF k = 0 THEN route ELSE walkFromHome(conns, next, Append(route, next))

\* connections.slice(0, n)
Slice(s, n) == SubSeq(s, 1, IF n < Len(s) THEN n ELSE Len(s))

\* The second copy without its test of the route length.
buildRouteFromHomeAnyLength(conns, randomTime, randomDistance) ==
  IF Len(conns) = 0 THEN NullRoute
  ELSE LET route == walkFromHome(conns, Home, <<Home>>)
       IN [isNull |-> FALSE,
           destinations |-> route,
           transportModes |-> Map(Slice(conns, Len(route) - 1), LAMBDA c : c.transportMode),
           totalTime |-> randomTime + 20,
           totalDistance |-> (randomDistance + 3) * 10]

\* buildRouteFromConnections of the second copy of utils/helpers; randomTime is
\* Math.floor(Math.random() * 60), randomDistance is Math.floor(Math.random() * 15),
\* and the distance is in tenths of a km as above.
buildRouteFromHome(conns, randomTime, randomDistance) ==
  IF Len(conns) = 0 THEN NullRoute
  ELSE LET route == walkFromHome(conns, Home, <<Home>>)
       IN IF Len(route) < 2 THEN NullRoute
          ELSE [isNull |-> FALSE,
                destinations |-> route,
                transportModes |-> Map(Slice(conns, Len(route) - 1),
                                       LAMBDA c : c.transportMode),
                totalTime |-> randomTime + 20,
                totalDistance |-> (randomDistance + 3) * 10]

\* rebuildConnectionsFromOrder reusing the existing edge of a pair as it is,
\* in the direction it was drawn.
rebuildConnectionsFromOrderKeepingEdges(newOrder, existingConnections, transportModes) ==
  [i \in 1..(Len(newOrder) - 1) |->
    LET from == newOrder[i]
        to == newOrder[i + 1]
        k == FindIndex(existingConnections,
                       LAMBDA c : (c.from = from /\ c.to = to) \/ (c.from = to /\ c.to = from))
    IN IF k # 0 THEN existingConnections[k]
       ELSE [from |-> from,
             to |-> to,
             isLocked |-> FALSE,
             transportMode |-> IF i <= Len(transportModes) THEN transportModes[i]
                               ELSE TRANSPORT_MODE_EMOJIS[1]]]

\* rebuildConnectionsFromOrder taking only the tag from the existing edge.
rebuildConnectionsFromOrderUnlocked(newOrder, existingConnections, transportModes) ==
  [i \in 1..(Len(newOrder) - 1) |->
    LET from == newOrder[i]
        to == newOrder[i + 1]
        k == FindIndex(existingConnections,
                       LAMBDA c : (c.from = from /\ c.to = to) \/ (c.from = to /\ c.to = from))
    IN [from |-> from,
        to |-> to,
        isLocked |-> FALSE,
        transportMode |-> IF k # 0 THEN existingConnections[k].transportMode
                          ELSE IF i <= Len(transportModes) THEN transportModes[i]
                          ELSE TRANSPORT_MODE_EMOJIS[1]]]

rebuildConnectionsFromOrder(newOrder, existingConnections, transportModes) ==
  [i \in 1..(Len(newOrder) - 1) |->
    LET from == newOrder[i]
        to == newOrder[i + 1]
        k == FindIndex(existingConnections,
                       LAMBDA c : (c.from = from /\ c.to = to) \/ (c.from = to /\ c.to = from))
    IN [from |-> from,
        to |-> to,
        isLocked |-> IF k # 0 THEN existingConnections[k].isLocked ELSE FALSE,
        transportMode |-> IF k # 0 THEN existingConnections[k].transportMode
                          ELSE IF i <= Len(transportModes) THEN transportModes[i]
                          ELSE TRANSPORT_MODE_EMOJIS[1]]]

----------------------------------------------------------------------------
\* App: connection handlers (functional updates of connections)

\* The defensive filter of handleConnectionCreate: drops a connection whose
\* pair was already seen in either direction.
RECURSIVE deduplicate(_, _)
deduplicate(prev, seen) ==
  IF prev = <<>> THEN <<>>
  ELSE LET conn == Head(prev)
           key == <<conn.from, conn.to>>
           reverseKey == <<conn.to, conn.from>>
       IN IF key \in seen \/ reverseKey \in seen
          THEN deduplicate(Tail(prev), seen)
          ELSE <<conn>> \o deduplicate(Tail(prev), seen \cup {key, reverseKey})

\* handleConnectionCreate without the test of from's outgoing connection.
handleConnectionCreateAnyOutDegree(prev, from, to, randomTransport) ==
  LET deduplicated == deduplicate(prev, {})
      existsForward == connectionExists(deduplicated, from, to)
      existsReverse == connectionExists(deduplicated, to, from)
  IN IF existsForward \/ existsReverse THEN deduplicated
     ELSE Append(deduplicated, [from |-> from, to |-> to, isLocked |-> FALSE,
                                transportMode |-> randomTransport])

\* handleConnectionCreate without the test of the existing pair.
handleConnectionCreateAnyPair(prev, from, to, randomTransport) ==
  LET deduplicated == deduplicate(prev, {})
  IN IF hasOutgoingConnection(deduplicated, from) THEN deduplicated
     ELSE Append(deduplicated, [from |-> from, to |-> to, isLocked |-> FALSE,
                                transportMode |-> randomTransport])

\* handleConnectionCreate replacing the existing connection of the pair by a
\* new one instead of keeping it.
handleConnectionCreateReplacing(prev, from, to, randomTransport) ==
  LET deduplicated == deduplicate(prev, {})
      others == SelectSeq(deduplicated, LAMBDA c :
                  ~((c.from = from /\ c.to = to) \/ (c.from = to /\ c.to = from)))
  IN IF hasOutgoingConnection(others, from) THEN deduplicated
     ELSE Append(others, [from |-> from, to |-> to, isLocked |-> FALSE,
                          transportMode |-> randomTransport])

\* handleConnectionCreate inserting the connection already locked.
handleConnectionCreateLocked(prev, from, to, randomTransport) ==
  LET deduplicated == deduplicate(prev, {})
      existsForward == connectionExists(deduplicated, from, to)
      existsReverse == connectionExists(deduplicated, to, from)
  IN IF existsForward \/ existsReverse THEN deduplicated
     ELSE IF hasOutgoingConnection(deduplicated, from) THEN deduplicated
     ELSE Append(deduplicated, [from |-> from, to |-> to, isLocked |-> TRUE,
                                transportMode |-> randomTransport])

handleConnectionCreate(prev, from, to, randomTransport) ==
  LET deduplicated == deduplicate(prev, {})
      existsForward == connectionExists(deduplicated, from, to)
      existsReverse == connectionExists(deduplicated, to, from)
  IN IF existsForward \/ existsReverse THEN deduplicated
     ELSE IF hasOutgoingConnection(deduplicated, from) THEN deduplicated
     ELSE Append(deduplicated, [from |-> from, to |-> to, isLocked |-> FALSE,
                                transportMode |-> randomTransport])

\* handleConnectionLock without the test of the endpoints.
handleConnectionLockAll(prev, from, to) ==
  Map(prev, LAMBDA c : [c EXCEPT !.isLocked = TRUE])

\* handleConnectionLock locking nothing.
handleConnectionLockNone(prev, from, to) == prev

handleConnectionLock(prev, from, to) ==
  Map(prev, LAMBDA c :
    IF (c.from = from /\ c.to = to) \/ (c.from = to /\ c.to = from)
    THEN [c EXCEPT !.isLocked = TRUE] ELSE c)

\* setConnections(prev => prev.filter(...)) of handleClearNode / handleDeleteDestination
removeConnectionsOf(prev, destinationId) ==
  SelectSeq(prev, LAMBDA c : c.from # destinationId /\ c.to # destinationId)

----------------------------------------------------------------------------
\* NavigationWheel: derived values and helpers

filledNodes(dests) == SelectSeq(dests, LAMBDA d : ~d.isCenter /\ ~d.isEmpty)
hasEmptyNode(dests) == \E i \in 1..Len(dests) : ~dests[i].isCenter /\ dests[i].isEmpty
hasReachedMax(dests) == Len(filledNodes(dests)) >= MAX_DESTINATIONS

\* isEmpty stands for the whole test "isEmpty, no label, or label 'Legg til sted'".
isEmptyDest(dests, nodeId) ==
  LET k == findDest(dests, nodeId) IN k = 0 \/ dests[k].isEmpty

\* canNodeStartDrawing(nodeId).allowed
canNodeStartDrawing(dests, conns, nodeId) ==
  IF isEmptyDest(dests, nodeId) THEN FALSE
  ELSE IF Len(conns) = 0 THEN nodeId = Home
  ELSE IF nodeId = Home
       THEN ~(\E i \in 1..Len(conns) : conns[i].from = Home \/ conns[i].to = Home)
  ELSE IF ~(\E i \in 1..Len(conns) : conns[i].to = nodeId) THEN FALSE
  ELSE ~(\E i \in 1..Len(conns) : conns[i].from = nodeId)

\* Nodes a pointer move can report as hoveredDest while drawing from drawStart.
hoverCandidates(dests, start) ==
  {dests[i].id : i \in {j \in 1..Len(dests) : dests[j].id # start /\ ~dests[j].isEmpty}}

\* The cleanup of the effect keyed on [lockTimer, hoverTimer]: when the other
\* handle state changed and this one did not, this (previous = current) handle
\* is cleared.
afterCleanup(timer, thisChanged, otherChanged) ==
  IF ~thisChanged /\ otherChanged THEN clearTimeout(timer) ELSE timer

\* The effect without its cleanup.
cleanupCancelsNothing(prev, depsChanged) == 0

\* The number of pending timeouts the cleanup cancels through prev, the handle
\* state of the previous render, when the effect's dependencies have changed.
cleanupCancels(prev, depsChanged) == IF depsChanged THEN cancels(prev) ELSE 0

\* next = handleConnectionCreate(prev, from, ..) has inserted the edge.
inserted(prev, next) == Len(next) > Len(deduplicate(prev, {}))

seeds(prev, next, from) == homeSeeded \/ (from = Home /\ inserted(prev, next))

----------------------------------------------------------------------------
\* NavigationWheel: handlers (normal mode)

\* handlePointerDown starting the drawing before the canNodeStartDrawing test.
handlePointerDownStartsFirst(nodeId) ==
  /\ viewMode = "wheel"
  /\ ~isEditMode
  /\ UNCHANGED <<appVars, homeSeeded, hoveredNode, chainedDrawing, hoverTimer, lockTimer,
                 pendingTimeouts>>
  /\ hasDest(destinations, nodeId)
  /\ IF destinations[findDest(destinations, nodeId)].isEmpty
     THEN /\ toast' = IF hasReachedMax(destinations) THEN "max" ELSE None
          /\ UNCHANGED <<isDrawing, drawStart, longPressTimer>>
     ELSE /\ longPressTimer' = TRUE
          /\ isDrawing' = TRUE
          /\ drawStart' = nodeId
          /\ toast' = IF ~canNodeStartDrawing(destinations, connections, nodeId)
                      THEN "cannotDraw" ELSE None

handlePointerDown(nodeId) ==
  /\ viewMode = "wheel"
  /\ ~isEditMode
  /\ UNCHANGED <<appVars, homeSeeded, hoveredNode, chainedDrawing, hoverTimer, lockTimer,
                 pendingTimeouts>>
  /\ hasDest(destinations, nodeId)
  /\ IF destinations[findDest(destinations, nodeId)].isEmpty
     THEN \* placeholder: max advisory, or onNodeClick opens the add dialog
          /\ toast' = IF hasReachedMax(destinations) THEN "max" ELSE None
          /\ UNCHANGED <<isDrawing, drawStart, longPressTimer>>
     ELSE /\ longPressTimer' = TRUE
          /\ IF ~canNodeStartDrawing(destinations, connections, nodeId)
             THEN /\ toast' = "cannotDraw"
                  /\ UNCHANGED <<isDrawing, drawStart>>
             ELSE /\ toast' = None
                  /\ isDrawing' = TRUE
                  /\ drawStart' = nodeId

\* newHoveredNode: the hovered candidate or None; far: the pointer is more
\* than 10px away from the press position.
handlePointerMove(newHoveredNode, far) ==
  /\ viewMode = "wheel"
  /\ ~(isEditMode /\ draggingNodeId # None)
  /\ longPressTimer' = IF far THEN FALSE ELSE longPressTimer
  /\ IF (~isDrawing /\ ~chainedDrawing) \/ drawStart = None
     THEN /\ newHoveredNode = None
          /\ UNCHANGED <<hoveredNode, hoverTimer, lockTimer, pendingTimeouts>>
     ELSE /\ newHoveredNode \in hoverCandidates(destinations, drawStart) \cup {None}
          /\ IF newHoveredNode # None /\ newHoveredNode # hoveredNode
             THEN /\ hoverTimer' = Timer(drawStart, newHoveredNode)
                  /\ lockTimer' = afterCleanup(lockTimer, FALSE, TRUE)
                  /\ pendingTimeouts' =
                       [hover |-> pendingTimeouts.hover - cancels(hoverTimer) + 1,
                        lock |-> pendingTimeouts.lock - cleanupCancels(lockTimer, TRUE)]
             ELSE IF newHoveredNode = None /\ hoveredNode # None
             THEN /\ hoverTimer' = NoTimer
                  /\ lockTimer' = afterCleanup(lockTimer, FALSE, hoverTimer # NoTimer)
                  /\ pendingTimeouts' =
                       [hover |-> pendingTimeouts.hover - cancels(hoverTimer),
                        lock |-> pendingTimeouts.lock
                                   - cleanupCancels(lockTimer, hoverTimer # NoTimer)]
             ELSE UNCHANGED <<hoverTimer, lockTimer, pendingTimeouts>>
          /\ hoveredNode' = newHoveredNode
  /\ toast' = None
  /\ UNCHANGED <<isDrawing, drawStart, chainedDrawing,
                 appVars, homeSeeded>>

\* The auto-lock timer callback, on its captured drawStart and newHoveredNode.
hoverTimerFires(randomTransport) ==
  /\ hoverTimer.live
  /\ LET created == handleConnectionCreate(connections, hoverTimer.from, hoverTimer.to,
                                           randomTransport)
     IN /\ connections' = handleConnectionLock(created, hoverTimer.from, hoverTimer.to)
        /\ homeSeeded' = seeds(connections, created, hoverTimer.from)
  /\ isDrawing' = FALSE
  /\ drawStart' = None
  /\ hoveredNode' = None
  /\ hoverTimer' = clearTimeout(hoverTimer)
  /\ pendingTimeouts' = [pendingTimeouts EXCEPT !.hover = @ - 1]
  /\ toast' = None
  /\ UNCHANGED <<destinations, viewMode, currentRoute, deleteTimers, removals,
                 chainedDrawing, lockTimer, longPressTimer>>

handlePointerUp(randomTransport) ==
  /\ viewMode = "wheel"
  /\ ~isEditMode
  /\ longPressTimer' = FALSE
  /\ hoverTimer' = NoTimer
  /\ toast' = None
  /\ IF (~isDrawing /\ ~chainedDrawing) \/ drawStart = None
     THEN /\ isDrawing' = FALSE
          /\ chainedDrawing' = FALSE
          /\ drawStart' = None
          /\ hoveredNode' = None
          /\ lockTimer' = afterCleanup(lockTimer, FALSE, hoverTimer # NoTimer)
          /\ pendingTimeouts' =
               [hover |-> pendingTimeouts.hover - cancels(hoverTimer),
                lock |-> pendingTimeouts.lock
                           - cleanupCancels(lockTimer, hoverTimer # NoTimer)]
          /\ UNCHANGED <<connections, homeSeeded>>
     ELSE IF hoveredNode # None /\ hoveredNode # drawStart
     THEN \* manual release on a candidate
          /\ connections' = handleConnectionCreate(connections, drawStart, hoveredNode,
                                                   randomTransport)
          /\ homeSeeded' = seeds(connections, connections', drawStart)
          /\ chainedDrawing' = FALSE
          /\ lockTimer' = [Timer(drawStart, hoveredNode) EXCEPT
                             !.found = hasDest(destinations, hoveredNode),
                             !.absorbed = ~inserted(connections, connections'),
                             !.reseeded = /\ homeSeeded /\ drawStart = Home
                                          /\ inserted(connections, connections')]
          /\ pendingTimeouts' =
               [hover |-> pendingTimeouts.hover - cancels(hoverTimer),
                lock |-> pendingTimeouts.lock + 1 - cleanupCancels(lockTimer, TRUE)]
          /\ UNCHANGED <<isDrawing, drawStart, hoveredNode>>
     ELSE /\ isDrawing' = FALSE
          /\ chainedDrawing' = FALSE
          /\ drawStart' = None
          /\ hoveredNode' = None
          /\ lockTimer' = afterCleanup(lockTimer, FALSE, hoverTimer # NoTimer)
          /\ pendingTimeouts' =
               [hover |-> pendingTimeouts.hover - cancels(hoverTimer),
                lock |-> pendingTimeouts.lock
                           - cleanupCancels(lockTimer, hoverTimer # NoTimer)]
          /\ UNCHANGED <<connections, homeSeeded>>
  /\ UNCHANGED <<destinations, viewMode, currentRoute, deleteTimers, removals>>

\* The lock timer callback, on its captured drawStart, hoveredNode and
\* destinations. getNodeScreenPosition of a target that the captured
\* destinations do not hold throws, after the lock and setChainedDrawing(true)
\* and before setDrawStart.
lockTimerFires ==
  /\ lockTimer.live
  /\ connections' = handleConnectionLock(connections, lockTimer.from, lockTimer.to)
  /\ chainedDrawing' = TRUE
  /\ drawStart' = IF lockTimer.found THEN lockTimer.to ELSE drawStart
  /\ lockTimer' = clearTimeout(lockTimer)
  /\ pendingTimeouts' = [pendingTimeouts EXCEPT !.lock = @ - 1]
  /\ toast' = None
  /\ UNCHANGED <<destinations, viewMode, currentRoute, deleteTimers, removals,
                 isDrawing, hoveredNode, hoverTimer, longPressTimer, homeSeeded>>

\* handleCancel without clearTimeout(hoverTimer).
handleCancelKeepsHoverTimer ==
  /\ viewMode = "wheel"
  /\ lockTimer' = NoTimer
  /\ isDrawing' = FALSE
  /\ chainedDrawing' = FALSE
  /\ drawStart' = None
  /\ hoveredNode' = None
  /\ toast' = None
  /\ pendingTimeouts' = [pendingTimeouts EXCEPT !.lock = @ - cancels(lockTimer)]
  /\ UNCHANGED <<hoverTimer, longPressTimer, appVars, homeSeeded>>

\* onPointerCancel / onPointerLeave
handleCancel ==
  /\ viewMode = "wheel"
  /\ lockTimer' = NoTimer
  /\ hoverTimer' = NoTimer
  /\ isDrawing' = FALSE
  /\ chainedDrawing' = FALSE
  /\ drawStart' = None
  /\ hoveredNode' = None
  /\ toast' = None
  /\ pendingTimeouts' = [hover |-> pendingTimeouts.hover - cancels(hoverTimer),
                          lock |-> pendingTimeouts.lock - cancels(lockTimer)]
  /\ UNCHANGED <<longPressTimer, appVars, homeSeeded>>

\* The long-press callback without the cancelling of the ongoing drawing.
longPressFiresKeepsDrawing ==
  /\ longPressTimer
  /\ longPressTimer' = FALSE
  /\ toast' = None
  /\ UNCHANGED <<isDrawing, drawStart, hoveredNode, chainedDrawing, hoverTimer, lockTimer,
                 pendingTimeouts, appVars, homeSeeded>>

\* The long-press timer callback.
longPressFires ==
  /\ longPressTimer
  /\ longPressTimer' = FALSE
  /\ isDrawing' = FALSE
  /\ drawStart' = None
  /\ hoveredNode' = None
  /\ toast' = None
  /\ UNCHANGED <<chainedDrawing, hoverTimer, lockTimer, pendingTimeouts, appVars, homeSeeded>>

----------------------------------------------------------------------------
\* App: nodes, route view

\* createEmptyNode: a placeholder with a fresh id.
freshEmptyId(dests) ==
  EmptyPool[FindIndex(EmptyPool, LAMBDA n : ~hasDest(dests, n))]

createEmptyNode(dests) == [id |-> freshEmptyId(dests), isCenter |-> FALSE, isEmpty |-> TRUE]

\* NavigationWheel leaves the tree: its state is dropped and the effect cleanup
\* clears the lock and hover timers.
unmountWheel ==
  /\ isDrawing' = FALSE
  /\ drawStart' = None
  /\ hoveredNode' = None
  /\ chainedDrawing' = FALSE
  /\ hoverTimer' = NoTimer
  /\ lockTimer' = NoTimer
  /\ pendingTimeouts' = [hover |-> pendingTimeouts.hover - cancels(hoverTimer),
                          lock |-> pendingTimeouts.lock - cancels(lockTimer)]
  /\ longPressTimer' = FALSE

\* EditDestinationModal offers "delete" and "clear" (and the edit-mode wheel its
\* delete button) for a node that is neither the center nor empty.
isDeleteOffered(destinationId) ==
  /\ hasDest(destinations, destinationId)
  /\ LET d == destinations[findDest(destinations, destinationId)]
     IN ~d.isCenter /\ ~d.isEmpty

handleClearNode(destinationId) ==
  /\ isDeleteOffered(destinationId)
  /\ removals < MaxRemovals
  /\ removals' = removals + 1
  /\ destinations' = Map(destinations, LAMBDA d :
                         IF d.id = destinationId THEN [d EXCEPT !.isEmpty = TRUE] ELSE d)
  /\ connections' = removeConnectionsOf(connections, destinationId)
  /\ toast' = None
  /\ UNCHANGED <<viewMode, currentRoute, deleteTimers, wheelVars, homeSeeded>>

\* handleDeleteDestination without its early return.
handleDeleteDestinationAnyNode(destinationId) ==
  /\ toast' = None
  /\ destinationId = Home \/ ~hasDest(destinations, destinationId)
     \/ isDeleteOffered(destinationId)
  /\ removals < MaxRemovals
  /\ removals' = removals + 1
  /\ connections' = removeConnectionsOf(connections, destinationId)
  /\ deleteTimers' = deleteTimers \cup {destinationId}
  /\ UNCHANGED <<destinations, viewMode, currentRoute, wheelVars, homeSeeded>>

handleDeleteDestination(destinationId) ==
  /\ toast' = None
  /\ destinationId = Home \/ ~hasDest(destinations, destinationId)
     \/ isDeleteOffered(destinationId)
  /\ LET k == findDest(destinations, destinationId)
     IN IF k = 0 \/ destinations[k].isCenter
        THEN UNCHANGED <<connections, deleteTimers, removals>>
        ELSE /\ removals < MaxRemovals
             /\ removals' = removals + 1
             /\ connections' = removeConnectionsOf(connections, destinationId)
             /\ deleteTimers' = deleteTimers \cup {destinationId}
  /\ UNCHANGED <<destinations, viewMode, currentRoute, wheelVars, homeSeeded>>

\* The delayed removal scheduled by handleDeleteDestination.
removeAfterDelete(prev, destinationId) ==
  LET updated == SelectSeq(prev, LAMBDA d : d.id # destinationId)
      otherNodes == SelectSeq(updated, LAMBDA d : ~d.isCenter)
  IN IF Len(otherNodes) = 0 THEN Append(updated, createEmptyNode(updated))
     ELSE IF Len(filledNodes(updated)) < MAX_DESTINATIONS /\ ~hasEmptyNode(updated)
          THEN Append(updated, createEmptyNode(updated))
     ELSE updated

deleteTimerFires(destinationId) ==
  /\ destinationId \in deleteTimers
  /\ deleteTimers' = deleteTimers \ {destinationId}
  /\ destinations' = removeAfterDelete(destinations, destinationId)
  /\ toast' = None
  /\ UNCHANGED <<connections, viewMode, currentRoute, removals, wheelVars, homeSeeded>>

handleClearConnections ==
  /\ connections' = <<>>
  /\ toast' = None
  /\ UNCHANGED <<destinations, viewMode, currentRoute, deleteTimers, removals,
                 wheelVars, homeSeeded>>

\* "Vis reiseplan", offered while hasAnyConnections.
handleBuildRoute ==
  /\ viewMode = "wheel"
  /\ Len(connections) > 0
  /\ LET newRoute == buildRouteFromConnections(connections)
     IN IF newRoute.isNull
        THEN UNCHANGED <<currentRoute, viewMode, wheelVars>>
        ELSE /\ currentRoute' = newRoute
             /\ viewMode' = "route"
             /\ unmountWheel
  /\ toast' = None
  /\ UNCHANGED <<destinations, connections, deleteTimers, removals, homeSeeded>>

handleBackToWheel ==
  /\ viewMode = "route"
  /\ viewMode' = "wheel"
  /\ currentRoute' = NullRoute
  /\ toast' = None
  /\ UNCHANGED <<destinations, connections, deleteTimers, removals, wheelVars, homeSeeded>>

handleReorderRoute(newOrder) ==
  /\ ~currentRoute.isNull
  /\ currentRoute' = [currentRoute EXCEPT !.destinations = newOrder]
  /\ connections' = rebuildConnectionsFromOrder(newOrder, connections,
                                                currentRoute.transportModes)

\* RouteVisualization: localRouteOrder follows route.destinations; the list
\* shows the ids still found in destinations.
localRouteOrder == currentRoute.destinations
routeDestinations == SelectSeq(localRouteOrder, LAMBDA id : hasDest(destinations, id))

swapAt(order, i, j) == [order EXCEPT ![i] = order[j], ![j] = order[i]]

\* index is the 0-based list index of the pressed item.
moveDestinationUp(index) ==
  /\ viewMode = "route"
  /\ index \in 0..(Len(routeDestinations) - 1)
  /\ index # 0 /\ index > 1                       \* canMoveUp
  /\ ~(index <= 1)
  /\ handleReorderRoute(swapAt(localRouteOrder, index + 1, index))
  /\ toast' = None
  /\ UNCHANGED <<destinations, viewMode, deleteTimers, removals, wheelVars, homeSeeded>>

moveDestinationDown(index) ==
  /\ viewMode = "route"
  /\ index \in 0..(Len(routeDestinations) - 1)
  /\ index # Len(routeDestinations) - 1 /\ index < Len(routeDestinations) - 2   \* canMoveDown
  /\ ~(index >= Len(localRouteOrder) - 2)
  /\ handleReorderRoute(swapAt(localRouteOrder, index + 1, index + 2))
  /\ toast' = None
  /\ UNCHANGED <<destinations, viewMode, deleteTimers, removals, wheelVars, homeSeeded>>

----------------------------------------------------------------------------
\* Specification

Init ==
  /\ destinations = INITIAL_DESTINATIONS
  /\ connections = <<>>
  /\ viewMode = "wheel"
  /\ currentRoute = NullRoute
  /\ deleteTimers = {}
  /\ removals = 0
  /\ isDrawing = FALSE
  /\ drawStart = None
  /\ hoveredNode = None
  /\ chainedDrawing = FALSE
  /\ hoverTimer = NoTimer
  /\ lockTimer = NoTimer
  /\ longPressTimer = FALSE
  /\ pendingTimeouts = [hover |-> 0, lock |-> 0]
  /\ toast = None
  /\ homeSeeded = FALSE
  /\ linearized = <<>>
  /\ linearizedVariant = <<>>
  /\ isEditMode = FALSE
  /\ draggingNodeId = None
  /\ pointerDownNodeId = None
  /\ hoveredSwapNodeId = None
  /\ editingDestination = None
  /\ lockingConnection = FALSE
  /\ carAnimation = FALSE
  /\ carTimeouts = 0
  /\ lockProgress = 0
  /\ lockIntervals = 0

\* Presses do not overlap: handlePointerDown overwrites the long-press handle
\* without clearing it, and the model holds one pending long-press callback,
\* so a press waits until the previous press's callback has fired or was cleared.
PointerDown == ~longPressTimer /\ (\E n \in NodeIds : handlePointerDown(n)) /\ UNCHANGED auxVars
PointerMove == (\E h \in NodeIds \cup {None}, far \in BOOLEAN : handlePointerMove(h, far)) /\ UNCHANGED auxVars
PointerUp == (\E m \in Modes : handlePointerUp(m)) /\ UNCHANGED auxVars
PointerCancel == handleCancel /\ UNCHANGED auxVars
HoverTimer == (\E m \in Modes : hoverTimerFires(m)) /\ UNCHANGED auxVars
LockTimer == lockTimerFires /\ UNCHANGED auxVars
LongPress == longPressFires /\ UNCHANGED auxVars
ClearNode == (\E n \in NodeIds : handleClearNode(n)) /\ UNCHANGED auxVars
DeleteDestination == (\E n \in {Home} \cup FilledIds : handleDeleteDestination(n)) /\ UNCHANGED auxVars
DeleteTimer == (\E n \in NodeIds : deleteTimerFires(n)) /\ UNCHANGED auxVars
ClearConnections == handleClearConnections /\ UNCHANGED auxVars
BuildRoute == handleBuildRoute /\ UNCHANGED auxVars
BackToWheel == handleBackToWheel /\ UNCHANGED auxVars
MoveUp == (\E i \in 0..Cardinality(NodeIds) : moveDestinationUp(i)) /\ UNCHANGED auxVars
MoveDown == (\E i \in 0..Cardinality(NodeIds) : moveDestinationDown(i)) /\ UNCHANGED auxVars

Next ==
  \/ PointerDown
  \/ PointerMove
  \/ PointerUp
  \/ PointerCancel
  \/ HoverTimer
  \/ LockTimer
  \/ LongPress
  \/ ClearNode
  \/ DeleteDestination
  \/ DeleteTimer
  \/ ClearConnections
  \/ BuildRoute
  \/ BackToWheel
  \/ MoveUp
  \/ MoveDown

Spec == Init /\ [][Next]_vars

\* Pending timers eventually fire: a timeout that stays set runs its callback.
FairSpec ==
  /\ Init /\ [][Next]_vars
  /\ WF_vars(HoverTimer)
  /\ WF_vars(LockTimer)
  /\ WF_vars(LongPress)
  /\ WF_vars(DeleteTimer)

----------------------------------------------------------------------------
\* buildRouteFromConnections on its own: the edge list is an input

\* An id that is on no node list: the id of a node that was deleted.
AbsentId == "studentsenteret"

LinModes == {TRANSPORT_MODE_EMOJIS[i] : i \in 1..NumLinModes}

\* The edge lists handleConnectionCreate can leave behind: no self-loop, no
\* pair connected twice (in either direction), at most one edge out of a node.
\* The endpoints may have left the node list since.
EdgeLists ==
  LET nodes == {Home} \cup FilledIds \cup {AbsentId}
      edges == {c \in [from : nodes, to : nodes, isLocked : {FALSE}, transportMode : LinModes] :
                  c.from # c.to}
      lists == UNION {[1..n -> edges] : n \in 0..MaxEdges}
  IN {l \in lists :
        \A i, j \in 1..Len(l) :
          i # j => /\ l[i].from # l[j].from
                   /\ {l[i].from, l[i].to} # {l[j].from, l[j].to}}

\* The outcomes of Math.floor(Math.random() * n) that are told apart.
RandomDraws == 0..(NumRandom - 1)

LinInit ==
  /\ connections \in EdgeLists
  /\ destinations = INITIAL_DESTINATIONS
  /\ viewMode = "wheel"
  /\ currentRoute = NullRoute
  /\ deleteTimers = {}
  /\ removals = 0
  /\ isDrawing = FALSE
  /\ drawStart = None
  /\ hoveredNode = None
  /\ chainedDrawing = FALSE
  /\ hoverTimer = NoTimer
  /\ lockTimer = NoTimer
  /\ longPressTimer = FALSE
  /\ pendingTimeouts = [hover |-> 0, lock |-> 0]
  /\ toast = None
  /\ homeSeeded = FALSE
  /\ linearized = <<>>
  /\ linearizedVariant = <<>>
  /\ isEditMode = FALSE
  /\ draggingNodeId = None
  /\ pointerDownNodeId = None
  /\ hoveredSwapNodeId = None
  /\ editingDestination = None
  /\ lockingConnection = FALSE
  /\ carAnimation = FALSE
  /\ carTimeouts = 0
  /\ lockProgress = 0
  /\ lockIntervals = 0

\* One call of buildRouteFromConnections(connections).
Linearize ==
  /\ Len(linearized) < MaxCalls
  /\ linearized' = Append(linearized, buildRouteFromConnections(connections))
  /\ UNCHANGED <<appVars, wheelVars, toast, homeSeeded, linearizedVariant, editVars,
                 editingDestination, overlayVars>>

\* One call of the second copy, with the outcomes of its two random draws.
LinearizeFromHome ==
  /\ Len(linearizedVariant) < MaxCalls
  /\ \E randomTime, randomDistance \in RandomDraws :
       linearizedVariant' = Append(linearizedVariant,
                                   buildRouteFromHome(connections, randomTime, randomDistance))
  /\ UNCHANGED <<appVars, wheelVars, toast, homeSeeded, linearized, editVars,
                 editingDestination, overlayVars>>

LinNext ==
  \/ Linearize
  \/ LinearizeFromHome

LinSpec == LinInit /\ [][LinNext]_vars

\* Any list of up to MaxEdges edges between nodes of the wheel: self-loops,
\* cycles, pairs connected twice and several edges out of one node included.
AnyEdgeLists ==
  LET nodes == {Home} \cup FilledIds
      edges == [from : nodes, to : nodes, isLocked : {FALSE},
                transportMode : {TRANSPORT_MODE_EMOJIS[1]}]
  IN UNION {[1..n -> edges] : n \in 0..MaxEdges}

WalkInit ==
  /\ connections \in AnyEdgeLists
  /\ destinations = INITIAL_DESTINATIONS
  /\ viewMode = "wheel"
  /\ currentRoute = NullRoute
  /\ deleteTimers = {}
  /\ removals = 0
  /\ isDrawing = FALSE
  /\ drawStart = None
  /\ hoveredNode = None
  /\ chainedDrawing = FALSE
  /\ hoverTimer = NoTimer
  /\ lockTimer = NoTimer
  /\ longPressTimer = FALSE
  /\ pendingTimeouts = [hover |-> 0, lock |-> 0]
  /\ toast = None
  /\ homeSeeded = FALSE
  /\ linearized = <<>>
  /\ linearizedVariant = <<>>
  /\ isEditMode = FALSE
  /\ draggingNodeId = None
  /\ pointerDownNodeId = None
  /\ hoveredSwapNodeId = None
  /\ editingDestination = None
  /\ lockingConnection = FALSE
  /\ carAnimation = FALSE
  /\ carTimeouts = 0
  /\ lockProgress = 0
  /\ lockIntervals = 0

WalkSpec == WalkInit /\ [][LinNext]_vars

\* The orders a reorder can pass: duplicate-free, starting at home, of the
\* length of a route (2 nodes or more); a node may have been deleted since.
Orders ==
  LET nodes == {Home} \cup FilledIds \cup {AbsentId}
  IN {o \in UNION {[1..n -> nodes] : n \in 2..Cardinality(nodes)} :
        /\ o[1] = Home
        /\ \A i, j \in 1..Len(o) : i # j => o[i] # o[j]}

\* The route view of an edge list that has a route.
ReorderInit ==
  /\ connections \in {l \in EdgeLists : ~buildRouteFromConnections(l).isNull}
  /\ currentRoute = buildRouteFromConnections(connections)
  /\ viewMode = "route"
  /\ destinations = INITIAL_DESTINATIONS
  /\ deleteTimers = {}
  /\ removals = 0
  /\ isDrawing = FALSE
  /\ drawStart = None
  /\ hoveredNode = None
  /\ chainedDrawing = FALSE
  /\ hoverTimer = NoTimer
  /\ lockTimer = NoTimer
  /\ longPressTimer = FALSE
  /\ pendingTimeouts = [hover |-> 0, lock |-> 0]
  /\ toast = None
  /\ homeSeeded = FALSE
  /\ linearized = <<>>
  /\ linearizedVariant = <<>>
  /\ isEditMode = FALSE
  /\ draggingNodeId = None
  /\ pointerDownNodeId = None
  /\ hoveredSwapNodeId = None
  /\ editingDestination = None
  /\ lockingConnection = FALSE
  /\ carAnimation = FALSE
  /\ carTimeouts = 0
  /\ lockProgress = 0
  /\ lockIntervals = 0

\* onReorderRoute(newOrder); the calls recorded were made on the old edge list.
Reorder ==
  /\ \E newOrder \in Orders : handleReorderRoute(newOrder)
  /\ linearized' = <<>>
  /\ toast' = None
  /\ UNCHANGED <<destinations, viewMode, deleteTimers, removals, wheelVars, homeSeeded,
                 linearizedVariant, editVars, editingDestination, overlayVars>>

ReorderNext ==
  \/ Reorder
  \/ Linearize

ReorderSpec == ReorderInit /\ [][ReorderNext]_vars

----------------------------------------------------------------------------
\* Properties

edgePairs(conns) == {<<conns[i].from, conns[i].to>> : i \in 1..Len(conns)}

\* The step calls onConnectionCreate: the auto-lock timer callback or a pointer-up.
createStep == (\E m \in Modes : hoverTimerFires(m)) \/ (\E m \in Modes : handlePointerUp(m))

\* The edges a step adds to the Edge Set.
newEdges == edgePairs(connections') \ edgePairs(connections)

\* C1: every node is the from of at most one edge of the Edge Set.
OutDegreeAtMostOne ==
  \A n \in NodeIds : outgoingCount(connections, n) <= 1

\* A release on a second target from a source that already has its outgoing edge.
OutDegreeWitness ==
  /\ lockTimer.live /\ lockTimer.absorbed
  /\ hasOutgoingConnection(connections, lockTimer.from)
  /\ ~connectionExists(connections, lockTimer.from, lockTimer.to)

\* C2: at most one edge exists between any unordered pair of nodes.
NoDuplicatePair ==
  \A i, j \in 1..Len(connections) :
    i # j => {connections[i].from, connections[i].to} # {connections[j].from, connections[j].to}

\* A release on the source of an existing edge, drawn from its target.
NoDuplicatePairWitness ==
  /\ lockTimer.live /\ lockTimer.absorbed
  /\ \E i \in 1..Len(connections) :
       connections[i].from = lockTimer.to /\ connections[i].to = lockTimer.from

\* C3: every node is the to of at most one edge of the Edge Set.
InDegreeAtMostOne ==
  \A n \in NodeIds : incomingCount(connections, n) <= 1

\* C4: a non-empty Edge Set is one chain from the origin: the linearized route
\* has |E|+1 nodes and starts at the origin.
SingleChainFromOrigin ==
  Len(connections) > 0 =>
    LET route == buildRouteFromConnections(connections)
    IN /\ ~route.isNull
       /\ Len(route.destinations) = Len(connections) + 1
       /\ route.destinations[1] = Home

\* C5 (as claimed): over the whole lifetime at most one edge with from = origin
\* is ever created.
OriginSeedsOnceEver ==
  [][(createStep /\ \E e \in newEdges : e[1] = Home) => ~homeSeeded]_vars

\* C5 (amended): a gesture inserts an edge with from = origin only while the
\* current Edge Set has no edge with from = origin.
OriginSeedsOncePerEdgeSet ==
  [][(createStep /\ \E e \in newEdges : e[1] = Home)
       => outgoingCount(connections, Home) = 0]_vars

\* The origin has seeded a second edge after the first one was removed.
OriginSeedsAgainWitness ==
  /\ lockTimer.live /\ lockTimer.reseeded
  /\ outgoingCount(connections, Home) = 1

\* C6: onConnectionCreate on a pair that is already connected (in either
\* direction) returns the Edge Set as it is, and a second call changes nothing
\* the first call did not.
CreateIsIdempotent ==
  \A f \in NodeIds, t \in NodeIds, m \in Modes :
    LET once == handleConnectionCreate(connections, f, t, m)
    IN /\ connectionExists(connections, f, t) => once = connections
       /\ \A m2 \in Modes : handleConnectionCreate(once, f, t, m2) = once

\* A release has called onConnectionCreate for an edge that was already in the
\* Edge Set, in the same direction, and nothing was inserted.
CreateIsIdempotentWitness ==
  /\ lockTimer.live /\ lockTimer.absorbed
  /\ \E i \in 1..Len(connections) :
       connections[i].from = lockTimer.from /\ connections[i].to = lockTimer.to

\* The steps that complete a draw gesture whose endpoints were connected
\* before it: the auto-lock callback on a connected pair, the release on a
\* connected pair, and the lock timer of a release that did not insert.
autoLockOnConnectedPair ==
  /\ hoverTimer.live
  /\ connectionExists(connections, hoverTimer.from, hoverTimer.to)
  /\ \E m \in Modes : hoverTimerFires(m)

releaseOnConnectedPair ==
  /\ (isDrawing \/ chainedDrawing) /\ drawStart # None
  /\ hoveredNode # None /\ hoveredNode # drawStart
  /\ connectionExists(connections, drawStart, hoveredNode)
  /\ \E m \in Modes : handlePointerUp(m)

confirmOnConnectedPair ==
  /\ lockTimer.live /\ lockTimer.absorbed
  /\ connectionExists(connections, lockTimer.from, lockTimer.to)
  /\ lockTimerFires

\* No edge is added, removed, reordered or redirected, and the only lock flag
\* that can change is the one of the edge between f and t, from FALSE to TRUE.
onlyLocks(f, t) ==
  /\ Len(connections') = Len(connections)
  /\ \A i \in 1..Len(connections) :
       /\ connections'[i].from = connections[i].from
       /\ connections'[i].to = connections[i].to
       /\ connections'[i].transportMode = connections[i].transportMode
       /\ connections[i].isLocked => connections'[i].isLocked
       /\ connections'[i].isLocked # connections[i].isLocked
            => {connections[i].from, connections[i].to} = {f, t}

\* C7 (as claimed): a completed gesture on a connected pair leaves the Edge Set
\* unchanged, lock flags included.
ConnectedPairGestureChangesNothing ==
  [][(autoLockOnConnectedPair \/ releaseOnConnectedPair \/ confirmOnConnectedPair)
       => connections' = connections]_vars

\* C7 (amended): such a gesture adds, removes, reorders and redirects no edge;
\* the release changes nothing, and the only change the auto-lock callback or
\* the lock timer can make is to lock the existing edge between the endpoints.
ConnectedPairGestureOnlyLocks ==
  [][/\ autoLockOnConnectedPair => onlyLocks(hoverTimer.from, hoverTimer.to)
     /\ releaseOnConnectedPair => connections' = connections
     /\ confirmOnConnectedPair => onlyLocks(lockTimer.from, lockTimer.to)]_vars

\* Scenario B: X -> origin was released while the locked edge origin -> X exists.
ConnectedPairGestureWitness ==
  /\ lockTimer.live /\ lockTimer.absorbed /\ lockTimer.to = Home
  /\ \E i \in 1..Len(connections) :
       /\ connections[i].from = Home /\ connections[i].to = lockTimer.from
       /\ connections[i].isLocked

\* C8: a gesture inserts an edge out of a non-origin node N only while N is
\* the to of an edge and the from of none.
ContinuesOnlyFromReachedNode ==
  [][createStep =>
       \A e \in newEdges :
         e[1] # Home =>
           /\ \E i \in 1..Len(connections) : connections[i].to = e[1]
           /\ ~hasOutgoingConnection(connections, e[1])]_vars

\* C9: an edge inserted into an empty Edge Set starts at the origin.
FirstEdgeStartsAtOrigin ==
  [][(createStep /\ Len(connections) = 0) => \A e \in newEdges : e[1] = Home]_vars

\* C10 (as claimed): a press on a node that cannot start a drawing raises an
\* advisory and changes no state.
RejectedPressChangesNothing ==
  [][\A n \in NodeIds :
       (handlePointerDown(n) /\ ~canNodeStartDrawing(destinations, connections, n))
         => toast' # None /\ UNCHANGED <<appVars, wheelVars>>]_vars

\* C10 (amended): such a press leaves the Edge Set, the nodes and the drawing
\* state (isDrawing, drawStart, hoveredNode, chainedDrawing, hover and lock
\* timers) unchanged; on a filled node it raises the advisory and starts the
\* long-press timer, on a placeholder it raises no advisory unless the maximum
\* is reached.
RejectedPressKeepsDrawingState ==
  [][\A n \in NodeIds :
       (handlePointerDown(n) /\ ~canNodeStartDrawing(destinations, connections, n))
         => /\ UNCHANGED <<appVars, isDrawing, drawStart, hoveredNode, chainedDrawing,
                           hoverTimer, lockTimer, pendingTimeouts>>
            /\ IF isEmptyDest(destinations, n)
               THEN /\ toast' = (IF hasReachedMax(destinations) THEN "max" ELSE None)
                    /\ UNCHANGED <<longPressTimer>>
               ELSE toast' = "cannotDraw" /\ longPressTimer']_vars

\* The advisory is up after a press on a node that cannot start a drawing.
RejectedPressWitness ==
  toast = "cannotDraw" /\ longPressTimer /\ ~isDrawing /\ drawStart = None

\* The edge from -> to is in conns and locked.
lockedEdge(conns, from, to) ==
  \E i \in 1..Len(conns) :
    conns[i].from = from /\ conns[i].to = to /\ conns[i].isLocked

unlockedEdge(conns, from, to) ==
  \E i \in 1..Len(conns) :
    conns[i].from = from /\ conns[i].to = to /\ ~conns[i].isLocked

\* handlePointerUp taking its manual-release branch (594-651).
releaseOnCandidate ==
  /\ (isDrawing \/ chainedDrawing) /\ drawStart # None
  /\ hoveredNode # None /\ hoveredNode # drawStart
  /\ \E m \in Modes : handlePointerUp(m)

GestureCompletionReturnsToIdle ==
  [][(HoverTimer \/ LockTimer)
       => /\ ~isDrawing' /\ ~chainedDrawing'
          /\ drawStart' = None /\ hoveredNode' = None]_vars

\* No drawing is under way and no hover or lock timer is pending.
gestureIdle ==
  /\ ~isDrawing /\ ~chainedDrawing
  /\ drawStart = None /\ hoveredNode = None
  /\ ~hoverTimer.live /\ ~lockTimer.live

\* C14: a pointer-cancel or pointer-leave leaves the Edge Set as it is and the
\* wheel idle with no hover or lock timer pending; from then on, until the next
\* press, neither timer fires, the wheel stays idle and a pointer-up adds no edge.
CancelAbortsGesture ==
  [][/\ handleCancel => connections' = connections /\ gestureIdle'
     /\ gestureIdle
          => /\ ~HoverTimer /\ ~LockTimer
             /\ PointerUp => connections' = connections
             /\ gestureIdle' \/ PointerDown]_vars

\* The wheel as a cancel leaves it after a press: idle, both timer handles
\* null, the long-press timer of the press still pending.
CancelWitness ==
  /\ gestureIdle /\ longPressTimer
  /\ hoverTimer = NoTimer /\ lockTimer = NoTimer
  /\ viewMode = "wheel" /\ connections = <<>> /\ toast = None

\* C15: clearing the Edge Set leaves the wheel idle with no hover or lock
\* timer pending, so that the Edge Set stays empty until the next press.
ClearResetsGesture ==
  [][ClearConnections => connections' = <<>> /\ gestureIdle']_vars

\* C16: at most one hover timeout and at most one lock timeout are pending,
\* and the pending one is the one the handle state refers to: a timeout whose
\* handle was replaced has been cancelled.
AtMostOneTimerOfEachKind ==
  /\ pendingTimeouts.hover <= 1 /\ pendingTimeouts.lock <= 1
  /\ pendingTimeouts.hover = cancels(hoverTimer)
  /\ pendingTimeouts.lock = cancels(lockTimer)

\* Two manual releases within the lock delay: the lock timer of a second
\* release on the same pair is pending while the edge of the first is unlocked.
SecondReleaseWitness ==
  /\ lockTimer.live /\ lockTimer.absorbed /\ pendingTimeouts.lock = 1
  /\ hoverTimer = NoTimer
  /\ unlockedEdge(connections, lockTimer.from, lockTimer.to)

\* C17: a pending hover timer is the timer of the candidate the pointer is
\* over: whenever the pointer has left the candidate of a hover timer, for no
\* node or for another candidate, that timer is no longer pending, so the
\* edge it would create is not created.
HoverTimerFollowsPointer ==
  hoverTimer.live => hoverTimer.to = hoveredNode

\* handlePointerDown on a filled node that passes canNodeStartDrawing: the
\* press enters the drawing state.
pressStartsDrawing(nodeId) ==
  /\ handlePointerDown(nodeId)
  /\ ~isEmptyDest(destinations, nodeId)
  /\ canNodeStartDrawing(destinations, connections, nodeId)

CancelClearsLongPress ==
  [][handleCancel => ~longPressTimer']_vars

\* C20: every endpoint of every edge is a node of the node list, and no edge
\* touches a node whose delayed removal is pending.
EdgeEndpointsInRegistry ==
  \A i \in 1..Len(connections) :
    /\ hasDest(destinations, connections[i].from)
    /\ hasDest(destinations, connections[i].to)
    /\ connections[i].from \notin deleteTimers
    /\ connections[i].to \notin deleteTimers

\* C21: no edge has a placeholder (empty) node of the node list as its from
\* or its to.
NoPlaceholderEndpoint ==
  \A i \in 1..Len(connections), k \in 1..Len(destinations) :
    destinations[k].isEmpty
      => destinations[k].id \notin {connections[i].from, connections[i].to}

----------------------------------------------------------------------------
\* Filling the wheel: the add dialog and handleEditDestination

\* handleEditDestination without its tests of the maximum: a new placeholder
\* whenever the last one was filled, and no removal of placeholders.
afterEditUnbounded(prev, destinationId) ==
  LET k == findDest(prev, destinationId)
      wasEmpty == k # 0 /\ prev[k].isEmpty
      updated == Map(prev, LAMBDA d :
                     IF d.id = destinationId THEN [d EXCEPT !.isEmpty = FALSE] ELSE d)
  IN IF wasEmpty /\ ~hasEmptyNode(updated)
     THEN Append(updated, createEmptyNode(updated))
     ELSE updated

\* handleEditDestination that never appends a placeholder.
afterEditNoAppend(prev, destinationId) ==
  LET updated == Map(prev, LAMBDA d :
                     IF d.id = destinationId THEN [d EXCEPT !.isEmpty = FALSE] ELSE d)
  IN IF Len(filledNodes(updated)) >= MAX_DESTINATIONS
     THEN SelectSeq(updated, LAMBDA d : d.isCenter \/ ~d.isEmpty)
     ELSE updated

\* The functional update of handleEditDestination(destination), destination
\* being the dialog's copy of the node with id destinationId. Positions
\* (recalculateNodePositions) are not part of the model.
afterEdit(prev, destinationId) ==
  LET k == findDest(prev, destinationId)
      wasEmpty == k # 0 /\ prev[k].isEmpty
      updated == Map(prev, LAMBDA d :
                     IF d.id = destinationId THEN [d EXCEPT !.isEmpty = FALSE] ELSE d)
      withNew == IF wasEmpty /\ ~hasEmptyNode(updated)
                    /\ Len(filledNodes(updated)) < MAX_DESTINATIONS
                 THEN Append(updated, createEmptyNode(updated))
                 ELSE updated
  IN IF Len(filledNodes(withNew)) >= MAX_DESTINATIONS
     THEN SelectSeq(withNew, LAMBDA d : d.isCenter \/ ~d.isEmpty)
     ELSE withNew

\* "Save" in the dialog: onSave(updatedDestination), then onClose().
handleEditDestination(destinationId) ==
  /\ destinations' = afterEdit(destinations, destinationId)
  /\ editingDestination' = None
  /\ toast' = None
  /\ UNCHANGED <<connections, viewMode, currentRoute, deleteTimers, removals, wheelVars,
                 homeSeeded, linVars, editVars, overlayVars>>

\* handlePointerDown on a placeholder calls onNodeClick unless hasReachedMax;
\* handleNodeClick opens the add dialog for the node.
pressOpensDialog(nodeId) ==
  /\ hasDest(destinations, nodeId)
  /\ destinations[findDest(destinations, nodeId)].isEmpty
  /\ ~hasReachedMax(destinations)

handleNodeClick(nodeId) == editingDestination' = nodeId

\* The dialog is closed without saving.
closeDialog ==
  /\ editingDestination # None
  /\ editingDestination' = None
  /\ toast' = None
  /\ UNCHANGED <<appVars, wheelVars, homeSeeded, linVars, editVars, overlayVars>>

FillIds == NodeIds \cup {EmptyPool[i] : i \in 1..Len(EmptyPool)}

\* While a dialog is open the wheel behind it takes no press.
PressPlaceholder ==
  /\ editingDestination = None
  /\ \E n \in FillIds :
       /\ hasDest(destinations, n)
       /\ destinations[findDest(destinations, n)].isEmpty
       /\ handlePointerDown(n)
       /\ IF pressOpensDialog(n) THEN handleNodeClick(n) ELSE UNCHANGED editingDestination
  /\ UNCHANGED <<linVars, editVars, overlayVars>>

SaveDestination == editingDestination # None /\ handleEditDestination(editingDestination)
CloseDialog == closeDialog
FillClearNode == editingDestination = None /\ ClearNode
FillDeleteDestination == editingDestination = None /\ DeleteDestination
FillDeleteTimer == (\E n \in FillIds : deleteTimerFires(n)) /\ UNCHANGED auxVars

FillNext ==
  \/ PressPlaceholder
  \/ SaveDestination
  \/ CloseDialog
  \/ FillClearNode
  \/ FillDeleteDestination
  \/ FillDeleteTimer

FillSpec == Init /\ [][FillNext]_vars

----------------------------------------------------------------------------
\* Edit mode: drag a node onto another to swap their places

\* onNodeSwap exchanging the entries of the whole list at the indexes found
\* among the non-center nodes.
onNodeSwapByListIndex(prev, nodeId1, nodeId2) ==
  LET otherNodes == SelectSeq(prev, LAMBDA d : ~d.isCenter)
      index1 == FindIndex(otherNodes, LAMBDA d : d.id = nodeId1)
      index2 == FindIndex(otherNodes, LAMBDA d : d.id = nodeId2)
  IN IF index1 = 0 \/ index2 = 0 THEN prev
     ELSE [prev EXCEPT ![index1] = prev[index2], ![index2] = prev[index1]]

\* The functional update of onNodeSwap(nodeId1, nodeId2).
onNodeSwap(prev, nodeId1, nodeId2) ==
  LET centerNodes == SelectSeq(prev, LAMBDA d : d.isCenter)
      otherNodes == SelectSeq(prev, LAMBDA d : ~d.isCenter)
      index1 == FindIndex(otherNodes, LAMBDA d : d.id = nodeId1)
      index2 == FindIndex(otherNodes, LAMBDA d : d.id = nodeId2)
      newOtherNodes == [otherNodes EXCEPT ![index1] = otherNodes[index2],
                                          ![index2] = otherNodes[index1]]
  IN IF index1 = 0 \/ index2 = 0 THEN prev
     ELSE IF centerNodes # <<>> THEN <<centerNodes[1]>> \o newOtherNodes
     ELSE newOtherNodes

\* A click on the EditButton, which the wheel renders only while nothing is
\* drawn, no lock is being confirmed, no car is animated and there is no edge.
onEditModeToggle ==
  /\ viewMode = "wheel"
  /\ ~isDrawing /\ ~chainedDrawing /\ ~lockingConnection
  /\ Len(connections) = 0
  /\ ~carAnimation
  /\ isEditMode' = ~isEditMode
  /\ toast' = None
  /\ UNCHANGED <<appVars, wheelVars, homeSeeded, linVars, overlayVars, draggingNodeId, pointerDownNodeId,
                 hoveredSwapNodeId, editingDestination>>

\* handlePointerDown in edit mode: the center and the placeholders open their
\* dialog (a placeholder unless hasReachedMax), any other node starts a drag.
editPointerDown(nodeId) ==
  /\ viewMode = "wheel"
  /\ isEditMode
  /\ hasDest(destinations, nodeId)
  /\ LET dest == destinations[findDest(destinations, nodeId)]
     IN IF dest.isCenter \/ dest.isEmpty
        THEN /\ IF dest.isEmpty /\ hasReachedMax(destinations)
                THEN toast' = "max" /\ UNCHANGED editingDestination
                ELSE toast' = None /\ handleNodeClick(nodeId)
             /\ UNCHANGED <<draggingNodeId, pointerDownNodeId>>
        ELSE /\ pointerDownNodeId' = nodeId
             /\ draggingNodeId' = nodeId
             /\ toast' = None
             /\ UNCHANGED editingDestination
  /\ UNCHANGED <<appVars, wheelVars, homeSeeded, linVars, overlayVars, isEditMode, hoveredSwapNodeId>>

\* Nodes a pointer move can report as hoveredDest while dragging.
swapCandidates(dests, dragging) ==
  {dests[i].id : i \in {j \in 1..Len(dests) :
                          dests[j].id # dragging /\ ~dests[j].isCenter /\ ~dests[j].isEmpty}}

\* handlePointerMove in edit mode while a node is dragged; newHoveredSwap is
\* the candidate within the 50px hit radius, or None.
editPointerMove(newHoveredSwap) ==
  /\ viewMode = "wheel"
  /\ isEditMode
  /\ draggingNodeId # None
  /\ newHoveredSwap \in swapCandidates(destinations, draggingNodeId) \cup {None}
  /\ hoveredSwapNodeId' = newHoveredSwap
  /\ toast' = None
  /\ UNCHANGED <<appVars, wheelVars, homeSeeded, linVars, overlayVars, isEditMode, draggingNodeId,
                 pointerDownNodeId, editingDestination>>

\* handlePointerUp in edit mode, run on the state of the render that precedes
\* the release; far tells whether the pointer is 10px or more from the press.
\* The tap test reads draggingNodeId of that render, not the value just set.
editPointerUp(far) ==
  /\ viewMode = "wheel"
  /\ isEditMode
  /\ IF draggingNodeId # None /\ hoveredSwapNodeId # None
     THEN /\ destinations' =
               IF hasDest(destinations, draggingNodeId)
                  /\ hasDest(destinations, hoveredSwapNodeId)
               THEN onNodeSwap(destinations, draggingNodeId, hoveredSwapNodeId)
               ELSE destinations
          /\ hoveredSwapNodeId' = None
     ELSE UNCHANGED <<destinations, hoveredSwapNodeId>>
  /\ draggingNodeId' = None
  /\ IF /\ pointerDownNodeId # None
        /\ draggingNodeId = None
        /\ hasDest(destinations, pointerDownNodeId)
        /\ ~destinations[findDest(destinations, pointerDownNodeId)].isCenter
        /\ ~destinations[findDest(destinations, pointerDownNodeId)].isEmpty
        /\ ~far
     THEN handleNodeClick(pointerDownNodeId)
     ELSE UNCHANGED editingDestination
  /\ longPressTimer' = FALSE
  /\ pointerDownNodeId' = None
  /\ toast' = None
  /\ UNCHANGED <<connections, viewMode, currentRoute, deleteTimers, removals, isDrawing,
                 drawStart, hoveredNode, chainedDrawing, hoverTimer, lockTimer,
                 pendingTimeouts, homeSeeded, linVars, overlayVars, isEditMode>>

\* The app as constructed: edit mode can be entered on a wheel without edges.
EditInit ==
  /\ connections = <<>>
  /\ destinations = INITIAL_DESTINATIONS
  /\ viewMode = "wheel"
  /\ currentRoute = NullRoute
  /\ deleteTimers = {}
  /\ removals = 0
  /\ isDrawing = FALSE
  /\ drawStart = None
  /\ hoveredNode = None
  /\ chainedDrawing = FALSE
  /\ hoverTimer = NoTimer
  /\ lockTimer = NoTimer
  /\ longPressTimer = FALSE
  /\ pendingTimeouts = [hover |-> 0, lock |-> 0]
  /\ toast = None
  /\ homeSeeded = FALSE
  /\ linearized = <<>>
  /\ linearizedVariant = <<>>
  /\ isEditMode = FALSE
  /\ draggingNodeId = None
  /\ pointerDownNodeId = None
  /\ hoveredSwapNodeId = None
  /\ editingDestination = None
  /\ lockingConnection = FALSE
  /\ carAnimation = FALSE
  /\ carTimeouts = 0
  /\ lockProgress = 0
  /\ lockIntervals = 0

EditModeToggle == editingDestination = None /\ onEditModeToggle
\* While a dialog is open the wheel behind it takes no press.
EditPointerDown ==
  /\ editingDestination = None
  /\ \E n \in FillIds :
       /\ editPointerDown(n)
       /\ editingDestination' # None => Len(filledNodes(destinations)) < MaxEditFilled
EditPointerMove == \E h \in FillIds \cup {None} : editPointerMove(h)
EditPointerUp == \E far \in BOOLEAN : editPointerUp(far)
EditSave == editingDestination # None /\ handleEditDestination(editingDestination)
EditCloseDialog == closeDialog
\* onDeleteClick of a node's delete button, shown in edit mode.
EditDeleteClick == isEditMode /\ editingDestination = None /\ DeleteDestination
EditDeleteTimer == (\E n \in FillIds : deleteTimerFires(n)) /\ UNCHANGED auxVars

EditNext ==
  \/ EditModeToggle
  \/ EditPointerDown
  \/ EditPointerMove
  \/ EditPointerUp
  \/ EditSave
  \/ EditCloseDialog
  \/ EditDeleteClick
  \/ EditDeleteTimer

EditSpec == EditInit /\ [][EditNext]_vars

----------------------------------------------------------------------------
\* The wheel with both modes: the drawing gestures with what they draw over the
\* wheel, the long-press dialog, the Edit button and the drag of edit mode

\* handlePointerUp takes its manual-release branch (594-651).
releasesOnNode ==
  /\ (isDrawing \/ chainedDrawing) /\ drawStart # None
  /\ hoveredNode # None /\ hoveredNode # drawStart

\* A press on a filled node in normal mode; it stores the pressed node.
WheelPointerDown ==
  /\ editingDestination = None
  /\ ~longPressTimer
  /\ \E n \in {Home} \cup FilledIds :
       /\ ~isEmptyDest(destinations, n)
       /\ handlePointerDown(n)
       /\ pointerDownNodeId' = n
  /\ UNCHANGED <<linVars, isEditMode, draggingNodeId, hoveredSwapNodeId, editingDestination,
                 overlayVars>>

\* The values of lockProgress that are told apart: 0, a value strictly between
\* 0 and 1, and 1 (Math.min(elapsed / lockDuration, 1)), in percent.
ProgressValues == {0, 50, 100}

\* While a dialog is open it takes the pointer events. The progress interval
\* of a new hover is cleared in the same render by the effect cleanup, which
\* runs because hoverTimer has changed and clears hoverProgressIntervalRef.
WheelPointerMove ==
  /\ editingDestination = None
  /\ \E h \in NodeIds \cup {None}, far \in BOOLEAN :
       /\ handlePointerMove(h, far)
       /\ lockProgress' = IF /\ (isDrawing \/ chainedDrawing) /\ drawStart # None
                             /\ h = None /\ hoveredNode # None
                          THEN 0 ELSE lockProgress
  /\ UNCHANGED <<linVars, editVars, editingDestination, lockingConnection, carAnimation,
                 carTimeouts, lockIntervals>>

\* A release on a node starts the progress interval of its lock confirmation.
WheelPointerUp ==
  /\ editingDestination = None
  /\ releasesOnNode => lockIntervals < MaxLockIntervals
  /\ \E m \in Modes : handlePointerUp(m)
  /\ pointerDownNodeId' = None
  /\ IF releasesOnNode
     THEN /\ lockingConnection' = TRUE
          /\ carAnimation' = TRUE
          /\ lockIntervals' = lockIntervals + 1
          /\ UNCHANGED lockProgress
     ELSE /\ lockProgress' = 0
          /\ UNCHANGED <<lockingConnection, carAnimation, lockIntervals>>
  /\ UNCHANGED <<linVars, isEditMode, draggingNodeId, hoveredSwapNodeId, editingDestination,
                 carTimeouts>>

\* handleCancel clears the timers and hoverProgressIntervalRef, not the
\* progress interval of a lock confirmation.
WheelPointerCancel ==
  /\ editingDestination = None
  /\ handleCancel
  /\ lockingConnection' = FALSE
  /\ carAnimation' = FALSE
  /\ lockProgress' = 0
  /\ UNCHANGED <<linVars, editVars, editingDestination, carTimeouts, lockIntervals>>

\* The auto-lock callback shows the car and sets the timeout that hides it.
WheelHoverTimer ==
  /\ carTimeouts < MaxCarTimeouts
  /\ \E m \in Modes : hoverTimerFires(m)
  /\ carAnimation' = TRUE
  /\ carTimeouts' = carTimeouts + 1
  /\ lockProgress' = 0
  /\ UNCHANGED <<linVars, editVars, editingDestination, lockingConnection, lockIntervals>>

\* setTimeout(() => setCarAnimation(null), 1000) of the auto-lock callback.
carTimeoutFires ==
  /\ carTimeouts > 0
  /\ carTimeouts' = carTimeouts - 1
  /\ carAnimation' = FALSE
  /\ toast' = None
  /\ UNCHANGED <<appVars, wheelVars, homeSeeded, linVars, editVars, editingDestination,
                 lockingConnection, lockProgress, lockIntervals>>

\* The lock callback; when getNodeScreenPosition throws, the statements after
\* it, setLockingConnection(null), setLockProgress(0) and clearInterval, do
\* not run.
WheelLockTimer ==
  /\ lockTimerFires
  /\ carAnimation' = FALSE
  /\ IF lockTimer.found
     THEN /\ lockingConnection' = FALSE
          /\ lockProgress' = 0
          /\ lockIntervals' = lockIntervals - 1
     ELSE UNCHANGED <<lockingConnection, lockProgress, lockIntervals>>
  /\ UNCHANGED <<linVars, editVars, editingDestination, carTimeouts>>

\* A tick of the progress interval of a lock confirmation (every 16 ms). An
\* interval whose timer is pending has run for less than lockDuration; one
\* whose timer was cleared goes on, reaches 1 and clears itself.
lockProgressTick ==
  /\ lockIntervals > 0
  /\ \/ /\ lockProgress' = 50
        /\ UNCHANGED lockIntervals
     \/ /\ lockIntervals > (IF lockTimer.live THEN 1 ELSE 0)
        /\ lockProgress' = 100
        /\ lockIntervals' = lockIntervals - 1
  /\ toast' = None
  /\ UNCHANGED <<appVars, wheelVars, homeSeeded, linVars, editVars, editingDestination,
                 lockingConnection, carAnimation, carTimeouts>>

\* The long-press callback opens the dialog of the pressed node.
WheelLongPress ==
  /\ longPressFires
  /\ handleNodeClick(pointerDownNodeId)
  /\ UNCHANGED <<linVars, editVars, overlayVars>>

WheelCloseDialog == closeDialog
\* The click that enters edit mode; EditSpec follows the clicks that leave it.
WheelEditModeToggle == ~isEditMode /\ EditModeToggle
WheelEditPointerDown ==
  /\ editingDestination = None
  /\ \E n \in {Home} \cup FilledIds : editPointerDown(n)
WheelEditPointerMove == EditPointerMove
WheelEditPointerUp == EditPointerUp

WheelNext ==
  \/ WheelPointerDown
  \/ WheelPointerMove
  \/ WheelPointerUp
  \/ WheelPointerCancel
  \/ WheelHoverTimer
  \/ carTimeoutFires
  \/ lockProgressTick
  \/ WheelLockTimer
  \/ WheelLongPress
  \/ WheelCloseDialog
  \/ WheelEditModeToggle
  \/ WheelEditPointerDown
  \/ WheelEditPointerMove
  \/ WheelEditPointerUp

WheelSpec == Init /\ [][WheelNext]_vars

\* The nodes reachable from the nodes of S along directed edges of conns.
RECURSIVE reachableFrom(_, _)
reachableFrom(conns, S) ==
  LET T == S \cup {conns[i].to : i \in {j \in 1..Len(conns) : conns[j].from \in S}}
  IN IF T = S THEN S ELSE reachableFrom(conns, T)

\* C22: every non-null route returned by buildRouteFromConnections starts at
\* the origin and holds only nodes reachable from the origin along directed
\* edges, and the result is null when the origin has no outgoing edge.
RouteStartsAtOrigin ==
  \A k \in 1..Len(linearized) :
    LET r == linearized[k]
    IN /\ ~r.isNull =>
            /\ r.destinations[1] = Home
            /\ \A i \in 1..Len(r.destinations) :
                 r.destinations[i] \in reachableFrom(connections, {Home})
       /\ ~hasOutgoingConnection(connections, Home) => r.isNull

\* C23: two calls of buildRouteFromConnections on the same edge list return the
\* same route: the same node order, transport tags, total time and total
\* distance, for either copy of the helpers.
LinearizeIsDeterministic ==
  /\ \A i, j \in 1..Len(linearized) : linearized[i] = linearized[j]
  /\ \A i, j \in 1..Len(linearizedVariant) : linearizedVariant[i] = linearizedVariant[j]

\* C24: buildRouteFromConnections returns null for the empty edge list, and
\* every non-null route it returns has at least 2 nodes, for either copy of
\* the helpers.
RouteHasALeg ==
  \A r \in {linearized[i] : i \in 1..Len(linearized)}
           \cup {linearizedVariant[i] : i \in 1..Len(linearizedVariant)} :
    /\ connections = <<>> => r.isNull
    /\ ~r.isNull => Len(r.destinations) >= 2

\* Edges that do not touch home: the first copy returns the route of their
\* chain, the second copy, whose walk never leaves home, returns null.
RouteHasALegWitness ==
  /\ connections # <<>>
  /\ Len(linearized) > 0 /\ ~linearized[1].isNull /\ Len(linearized[1].destinations) = 2
  /\ Len(linearizedVariant) > 0 /\ linearizedVariant[1].isNull

\* C25: a route returned by buildRouteFromConnections holds no node id that
\* is absent from the node list: edges to or from such a node are skipped.
RouteHasOnlyKnownNodes ==
  \A r \in {linearized[i] : i \in 1..Len(linearized)}
           \cup {linearizedVariant[i] : i \in 1..Len(linearizedVariant)} :
    \A i \in 1..Len(r.destinations) : hasDest(destinations, r.destinations[i])

\* The transport tags of route r are parallel to its legs in conns.
tagsParallel(conns, r) ==
  /\ Len(r.transportModes) = Len(r.destinations) - 1
  /\ \A i \in 1..(Len(r.destinations) - 1) :
       \E k \in 1..Len(conns) :
         /\ conns[k].from = r.destinations[i]
         /\ conns[k].to = r.destinations[i + 1]
         /\ conns[k].transportMode = r.transportModes[i]

\* C26: in every route returned by buildRouteFromConnections the transport
\* tags are parallel to the legs: one tag per leg, entry i being the tag of
\* the edge from node i to node i + 1, whatever the order of the edge list.
TagsParallelToLegs ==
  \A r \in {linearized[i] : i \in 1..Len(linearized)}
           \cup {linearizedVariant[i] : i \in 1..Len(linearizedVariant)} :
    ~r.isNull => tagsParallel(connections, r)

\* C27: the number of filled non-origin nodes never exceeds MAX_DESTINATIONS;
\* once it equals the maximum no placeholder is on the node list (none is
\* appended), and a press on a placeholder at the maximum raises the advisory
\* and changes neither the node list nor the dialog.
FilledNeverExceedsMax ==
  [][/\ Len(filledNodes(destinations')) <= MAX_DESTINATIONS
     /\ hasReachedMax(destinations') => ~hasEmptyNode(destinations')
     /\ \A n \in FillIds :
          (/\ hasReachedMax(destinations)
           /\ hasDest(destinations, n)
           /\ destinations[findDest(destinations, n)].isEmpty
           /\ handlePointerDown(n))
            => toast' = "max" /\ UNCHANGED <<destinations, editingDestination>>]_vars

\* The wheel is full: the last save filled the MAX_DESTINATIONS-th node and
\* left no placeholder.
WheelIsFull ==
  /\ Len(filledNodes(destinations)) = MAX_DESTINATIONS
  /\ ~hasEmptyNode(destinations)
  /\ editingDestination = None

\* C28: after every step, while fewer than MAX_DESTINATIONS nodes are filled
\* the node list holds a placeholder; and a save that appends a node appends
\* it to a list without any placeholder, with the filled count below the maximum.
PlaceholderWhileBelowMax ==
  [][/\ Len(filledNodes(destinations')) < MAX_DESTINATIONS => hasEmptyNode(destinations')
     /\ (SaveDestination /\ Len(destinations') > Len(destinations))
          => /\ ~hasEmptyNode(SubSeq(destinations', 1, Len(destinations)))
             /\ destinations'[Len(destinations')].isEmpty
             /\ Len(filledNodes(destinations')) < MAX_DESTINATIONS]_vars

\* The first save: the initial placeholder is filled and a new one was appended.
PlaceholderAppended ==
  /\ removals = 0
  /\ hasDest(destinations, Placeholder)
  /\ ~isEmptyDest(destinations, Placeholder)
  /\ hasDest(destinations, EmptyPool[1])
  /\ isEmptyDest(destinations, EmptyPool[1])
  /\ Len(filledNodes(destinations)) = NumInitial + 1

\* C29: handleDeleteDestination on the origin or on an id that is not on the
\* node list changes neither the node list nor the Edge Set and schedules no
\* delayed removal.
DeleteOfOriginOrAbsentIsNoOp ==
  [][\A n \in {Home} \cup FilledIds :
       ((n = Home \/ ~hasDest(destinations, n)) /\ handleDeleteDestination(n))
         => UNCHANGED <<destinations, connections, deleteTimers>>]_vars

\* A node has been removed and edges exist: delete can be called for the
\* removed id (from a dialog opened before the removal) and for the origin.
DeleteOfAbsentWitness ==
  /\ \E n \in FilledIds : ~hasDest(destinations, n)
  /\ deleteTimers = {}
  /\ \E i \in 1..Len(connections) : connections[i].from = Home

\* Node nodeId is on the list dests, filled and not the center.
filledOther(dests, nodeId) ==
  /\ hasDest(dests, nodeId)
  /\ ~dests[findDest(dests, nodeId)].isCenter
  /\ ~dests[findDest(dests, nodeId)].isEmpty

\* C30: in edit mode a release with dragged node A over swap candidate B (both
\* on the node list) exchanges the list positions of A and B and leaves every
\* other node, the origin first, at its index; any other release leaves the
\* node list as it is; no release changes the Edge Set; and a node that becomes
\* the dragged node or the swap candidate is a filled node other than the
\* origin, the candidate other than the dragged node.
SwapExchangesTwoPositions ==
  [][/\ (\E far \in BOOLEAN : editPointerUp(far)) =>
          LET a == findDest(destinations, draggingNodeId)
              b == findDest(destinations, hoveredSwapNodeId)
          IN /\ connections' = connections
             /\ destinations'[1].id = Home
             /\ IF draggingNodeId # None /\ hoveredSwapNodeId # None /\ a # 0 /\ b # 0
                THEN destinations' = [destinations EXCEPT ![a] = destinations[b],
                                                          ![b] = destinations[a]]
                ELSE destinations' = destinations
     /\ (draggingNodeId' # draggingNodeId /\ draggingNodeId' # None)
          => filledOther(destinations, draggingNodeId')
     /\ (hoveredSwapNodeId' # hoveredSwapNodeId /\ hoveredSwapNodeId' # None)
          => /\ filledOther(destinations, hoveredSwapNodeId')
             /\ hoveredSwapNodeId' # draggingNodeId]_vars

\* The first initial node was dropped on the filled former placeholder: they
\* have exchanged places, the node between them and the new placeholder have
\* kept theirs.
SwapWitness ==
  /\ Len(destinations) = 5
  /\ destinations[1].id = Home
  /\ destinations[2].id = Placeholder /\ ~destinations[2].isEmpty
  /\ destinations[3].id = InitialNames[2]
  /\ destinations[4].id = InitialNames[1]
  /\ destinations[5].isEmpty
  /\ isEditMode
  /\ draggingNodeId = None /\ hoveredSwapNodeId = None
\* C31: in edit mode, the release of a press on a filled node other than the
\* origin, with no swap candidate and the pointer less than 10px from the
\* press, opens the edit dialog of that node.
TapOpensEditDialog ==
  [][\A n \in FillIds :
       (/\ isEditMode
        /\ pointerDownNodeId = n
        /\ hoveredSwapNodeId = None
        /\ filledOther(destinations, n)
        /\ editPointerUp(FALSE))
         => editingDestination' = n]_vars
NoEdgeAfterLongPress ==
  [][((\E m \in Modes : hoverTimerFires(m)) /\ connections' # connections)
       => (isDrawing \/ chainedDrawing)]_vars
\* C34: every unlocked edge of the Edge Set is eventually locked or removed,
\* provided pending timers eventually fire, whatever pointer events follow.
UnlockedEdgeResolves ==
  \A from, to \in {Home} \cup FilledIds :
    unlockedEdge(connections, from, to) ~> ~unlockedEdge(connections, from, to)
\* Some edge of conns joins a and b, in either direction.
edgeBetween(conns, a, b) ==
  \E i \in 1..Len(conns) :
    \/ conns[i].from = a /\ conns[i].to = b
    \/ conns[i].from = b /\ conns[i].to = a

\* Some locked edge of conns joins a and b, in either direction.
lockedBetween(conns, a, b) ==
  \E i \in 1..Len(conns) :
    /\ conns[i].isLocked
    /\ \/ conns[i].from = a /\ conns[i].to = b
       \/ conns[i].from = b /\ conns[i].to = a

\* Every edge of conns that joins a and b is locked.
allLockedBetween(conns, a, b) ==
  \A i \in 1..Len(conns) :
    (\/ conns[i].from = a /\ conns[i].to = b
     \/ conns[i].from = b /\ conns[i].to = a) => conns[i].isLocked

\* C35: locking is monotone: when a and b are joined by a locked edge, after
\* any step that leaves an edge between a and b every edge between them is
\* locked; and the lock timer callback, which only calls onConnectionLock,
\* leaves the list of edges with the same endpoints and tags in the same order.
LockIsMonotone ==
  [][connections' # connections =>
       /\ \A a, b \in {Home} \cup FilledIds :
            (lockedBetween(connections, a, b) /\ edgeBetween(connections', a, b))
              => allLockedBetween(connections', a, b)
       /\ lockTimerFires =>
            /\ Len(connections') = Len(connections)
            /\ \A i \in 1..Len(connections) :
                 /\ connections'[i].from = connections[i].from
                 /\ connections'[i].to = connections[i].to
                 /\ connections'[i].transportMode = connections[i].transportMode]_vars

\* The route view shows a chain of an unlocked and a locked edge, which move up
\* and move down rebuild: the locked pair stays joined and locked.
LockKeptByReorder ==
  /\ viewMode = "route"
  /\ Len(connections) = 2
  /\ connections[1].from = Home /\ ~connections[1].isLocked
  /\ connections[2].isLocked
  /\ currentRoute.destinations = <<Home, connections[1].to, connections[2].to>>
\* C36: buildRouteFromConnections returns on every edge list, cycles and
\* several edges out of one node included, after at most one round of its loop
\* per edge, and the route it returns holds no node twice.
RouteHasNoRepeatedNode ==
  \A r \in {linearized[i] : i \in 1..Len(linearized)}
           \cup {linearizedVariant[i] : i \in 1..Len(linearizedVariant)} :
    /\ Len(r.destinations) <= Len(connections) + 1
    /\ \A i, j \in 1..Len(r.destinations) : i # j => r.destinations[i] # r.destinations[j]

\* A cycle through home and a second edge out of home: the walk takes the
\* first edge out of home and stops in front of the edge that leads back.
WalkStopsInCycle ==
  /\ Len(connections) = 3
  /\ connections[1].from = Home /\ connections[1].to = InitialNames[1]
  /\ connections[2].from = InitialNames[1] /\ connections[2].to = Home
  /\ connections[3].from = Home /\ connections[3].to = InitialNames[2]
  /\ Len(linearized) > 0
  /\ linearized[1].destinations = <<Home, InitialNames[1]>>
\* The edges of conns are exactly order[i] -> order[i + 1], in that order.
isChainOf(conns, order) ==
  /\ Len(conns) = Len(order) - 1
  /\ \A i \in 1..Len(conns) : conns[i].from = order[i] /\ conns[i].to = order[i + 1]

\* C37: for a duplicate-free order starting at the origin, the Edge Set that
\* handleReorderRoute builds with rebuildConnectionsFromOrder is exactly the
\* chain order[i] -> order[i + 1], buildRouteFromConnections of it returns the
\* same order, and it holds at most one edge out of a node and no pair twice.
ReorderRoundTrips ==
  [][\A newOrder \in Orders :
       handleReorderRoute(newOrder) =>
         /\ isChainOf(connections', newOrder)
         /\ buildRouteFromConnections(connections').destinations = newOrder
         /\ \A i, j \in 1..Len(connections') :
              i # j => /\ connections'[i].from # connections'[j].from
                       /\ {connections'[i].from, connections'[i].to}
                            # {connections'[j].from, connections'[j].to}]_vars

\* A reorder to home, trening, leiligheta has rebuilt the edges, giving the new
\* pair the tag of its position in the old route, and buildRouteFromConnections
\* was called on the new edges.
ReorderWitness ==
  /\ currentRoute.destinations = <<Home, InitialNames[2], InitialNames[1]>>
  /\ isChainOf(connections, currentRoute.destinations)
  /\ currentRoute.transportModes # Map(connections, LAMBDA c : c.transportMode)
  /\ Len(linearized) = 1
  /\ linearized[1].destinations = currentRoute.destinations
\* Sequences a and b hold the same ids, each as often.
isPermutationOf(a, b) ==
  /\ Len(a) = Len(b)
  /\ \A x \in {a[i] : i \in 1..Len(a)} \cup {b[i] : i \in 1..Len(b)} :
       Cardinality({i \in 1..Len(a) : a[i] = x}) = Cardinality({i \in 1..Len(b) : b[i] = x})

\* C38: a move up or a move down in the route view leaves the route order a
\* permutation of the same nodes, with the same node at index 0 (the origin)
\* and the same node at the last index.
MoveKeepsEnds ==
  [][(\E index \in 0..Cardinality(NodeIds) :
        moveDestinationUp(index) \/ moveDestinationDown(index))
       => /\ isPermutationOf(currentRoute'.destinations, currentRoute.destinations)
          /\ currentRoute'.destinations[1] = currentRoute.destinations[1]
          /\ currentRoute'.destinations[Len(currentRoute'.destinations)]
               = currentRoute.destinations[Len(currentRoute.destinations)]]_vars
\* C39: lockProgress always lies between 0 and 1, and it is 0 whenever
\* neither a hover timer nor a lock-confirmation timer is pending.
LockProgressZeroWhenIdle ==
  /\ lockProgress \in 0..100
  /\ (~hoverTimer.live /\ ~lockTimer.live) => lockProgress = 0
====
